---- MODULE Spec2Model ----
(***************************************************************************)
(* Indirect binary heap (heap_indirect.h).                                 *)
(*                                                                         *)
(* The heap is a range [first, last) of a buffer of element pointers.      *)
(* Every element carries a priority (the field the comparator reads) and   *)
(* a recorded slot (the field setHeapIndex writes).  The model keeps the   *)
(* buffer, the number of live slots, the two per-element fields and the    *)
(* build flag BASE_HEAP_PRESERVE_STABILITY, plus a record describing the   *)
(* call that produced the current state.                                   *)
(***************************************************************************)
EXTENDS Integers, FiniteSets, Sequences, TLC

\* ---------------------------------------------------------------- bounds
MaxN == 7       \* number of element objects; largest heap a single call sees
SeqN == 3       \* largest heap built by a sequence of calls
MaxPrio == 3    \* priorities are 1..MaxPrio

Elems == 1..MaxN
Prios == 1..MaxPrio

\* ------------------------------------------------------- program constants
PosMod == 256   \* TestElem::pos is a uint8_t
First == 0      \* the heap proper starts at slot 0 of its container

VARIABLES
    stable,  \* BASE_HEAP_PRESERVE_STABILITY defined?
    a,       \* the container: slot -> element, slots 0..n-1
    n,       \* number of live slots: the heap is [first, first + n)
    prio,    \* element -> priority (TestElem::v)
    idx,     \* element -> recorded slot (TestElem::pos)
    last     \* the call that led here

vars == <<stable, a, n, prio, idx, last>>

\* ------------------------------------------------------------ arithmetic
\* C++ integer division truncates toward zero: (0 - 1) / 2 == 0.
CDiv(x, y) == IF x >= 0 THEN x \div y ELSE -((-x) \div y)

\* ------------------------------------------------- caller-supplied parts
\* Variant with the test program's other comparator: lhs->v > rhs->v
Comp_greater(pr, x, y) == pr[x] > pr[y]

\* comparator of the test program: lhs->v < rhs->v
Comp(pr, x, y) == pr[x] < pr[y]

\* setHeapIndex(TestElem *e, size_t idx) { e->pos = idx; }
setHeapIndex(ix, e, k) == [ix EXCEPT ![e] = k % PosMod]

\* A helper state h is [a, idx, acc, moves, ups, sidx, mono]: the buffer,
\* the recorded slots, the set of slots (relative to first) read or written
\* so far, the number of elements moved so far, how many of them were moved
\* by the loop of HeapHelpers::upheap, the set of indices passed to
\* setHeapIndex, and whether every move so far took the hole strictly
\* nearer the root (in upheap) or strictly further from it (in downheap).
Start(buf, ix) ==
    [a |-> buf, idx |-> ix, acc |-> {}, moves |-> 0, ups |-> 0,
     sidx |-> {}, mono |-> TRUE]

\* ----------------------------------------------------- HeapHelpers::upheap
\* Variant with the parent of a 1-based heap, k / 2.
RECURSIVE HeapHelpers_upheap_halfParent(_, _, _, _, _, _)
HeapHelpers_upheap_halfParent(first, k, topIndex, v, h, pr) ==
    LET parent == CDiv(k, 2) IN
    IF k > topIndex /\ Comp(pr, h.a[first + parent], v)
    THEN LET e == h.a[first + parent]
             h1 == [a     |-> [h.a EXCEPT ![first + k] = e],
                    idx   |-> setHeapIndex(h.idx, e, k),
                    acc   |-> h.acc \cup {parent, k},
                    moves |-> h.moves + 1,
                    ups   |-> h.ups + 1,
                    sidx  |-> h.sidx \cup {k},
                    mono  |-> h.mono /\ parent < k]
         IN HeapHelpers_upheap_halfParent(first, parent, topIndex, v, h1, pr)
    ELSE [a     |-> [h.a EXCEPT ![first + k] = v],
          idx   |-> setHeapIndex(h.idx, v, k),
          acc   |-> h.acc \cup {k}
                      \cup (IF k > topIndex THEN {parent} ELSE {}),
          moves |-> h.moves,
          ups   |-> h.ups,
          sidx  |-> h.sidx \cup {k},
          mono  |-> h.mono]

\* Variant that notifies 1-based slot numbers, k + 1.
RECURSIVE HeapHelpers_upheap_oneBased(_, _, _, _, _, _)
HeapHelpers_upheap_oneBased(first, k, topIndex, v, h, pr) ==
    LET parent == CDiv(k - 1, 2) IN
    IF k > topIndex /\ Comp(pr, h.a[first + parent], v)
    THEN LET e == h.a[first + parent]
             h1 == [a     |-> [h.a EXCEPT ![first + k] = e],
                    idx   |-> setHeapIndex(h.idx, e, k + 1),
                    acc   |-> h.acc \cup {parent, k},
                    moves |-> h.moves + 1,
                    ups   |-> h.ups + 1,
                    sidx  |-> h.sidx \cup {k + 1},
                    mono  |-> h.mono /\ parent < k]
         IN HeapHelpers_upheap_oneBased(first, parent, topIndex, v, h1, pr)
    ELSE [a     |-> [h.a EXCEPT ![first + k] = v],
          idx   |-> setHeapIndex(h.idx, v, k + 1),
          acc   |-> h.acc \cup {k}
                      \cup (IF k > topIndex THEN {parent} ELSE {}),
          moves |-> h.moves,
          ups   |-> h.ups,
          sidx  |-> h.sidx \cup {k + 1},
          mono  |-> h.mono]

RECURSIVE HeapHelpers_upheap(_, _, _, _, _, _)
HeapHelpers_upheap(first, k, topIndex, v, h, pr) ==
    LET parent == CDiv(k - 1, 2) IN
    IF k > topIndex /\ Comp(pr, h.a[first + parent], v)
    THEN \* move down the parent
         LET e == h.a[first + parent]
             h1 == [a     |-> [h.a EXCEPT ![first + k] = e],
                    idx   |-> setHeapIndex(h.idx, e, k),
                    acc   |-> h.acc \cup {parent, k},
                    moves |-> h.moves + 1,
                    ups   |-> h.ups + 1,
                    sidx  |-> h.sidx \cup {k},
                    mono  |-> h.mono /\ parent < k]
         IN HeapHelpers_upheap(first, parent, topIndex, v, h1, pr)
    ELSE [a     |-> [h.a EXCEPT ![first + k] = v],
          idx   |-> setHeapIndex(h.idx, v, k),
          acc   |-> h.acc \cup {k}
                      \cup (IF k > topIndex THEN {parent} ELSE {}),
          moves |-> h.moves,
          ups   |-> h.ups,
          sidx  |-> h.sidx \cup {k},
          mono  |-> h.mono]

\* --------------------------------------------------- HeapHelpers::downheap
\* Variant of the loop that moves the child up without setHeapIndex.
RECURSIVE downheapLoop_noNotify(_, _, _, _, _, _, _, _)
downheapLoop_noNotify(stab, first, k, secondChild, len, v, h, pr) ==
    IF secondChild < CDiv(len - 1, 2)
    THEN LET sc1 == 2 * (secondChild + 1)
             sc2 == IF Comp(pr, h.a[first + sc1], h.a[first + (sc1 - 1)])
                    THEN sc1 - 1 ELSE sc1
             acc1 == h.acc \cup {sc1, sc1 - 1}
         IN IF ~stab /\ ~Comp(pr, v, h.a[first + sc2])
            THEN [k |-> k, secondChild |-> sc2,
                  h |-> [h EXCEPT !.acc = acc1]]
            ELSE LET e == h.a[first + sc2]
                     h1 == [a     |-> [h.a EXCEPT ![first + k] = e],
                            idx   |-> h.idx,
                            acc   |-> acc1 \cup {k},
                            moves |-> h.moves + 1,
                            ups   |-> h.ups,
                            sidx  |-> h.sidx,
                            mono  |-> h.mono /\ sc2 > k]
                 IN downheapLoop_noNotify(stab, first, sc2, sc2, len, v, h1,
                                          pr)
    ELSE [k |-> k, secondChild |-> secondChild, h |-> h]

\* The while loop: returns the final k, secondChild and helper state.
RECURSIVE downheapLoop(_, _, _, _, _, _, _, _)
downheapLoop(stab, first, k, secondChild, len, v, h, pr) ==
    IF secondChild < CDiv(len - 1, 2)
    THEN LET sc1 == 2 * (secondChild + 1)
             \* pick the biggest child
             sc2 == IF Comp(pr, h.a[first + sc1], h.a[first + (sc1 - 1)])
                    THEN sc1 - 1 ELSE sc1
             acc1 == h.acc \cup {sc1, sc1 - 1}
         IN IF ~stab /\ ~Comp(pr, v, h.a[first + sc2])
            THEN \* break
                 [k |-> k, secondChild |-> sc2,
                  h |-> [h EXCEPT !.acc = acc1]]
            ELSE LET e == h.a[first + sc2]
                     h1 == [a     |-> [h.a EXCEPT ![first + k] = e],
                            idx   |-> setHeapIndex(h.idx, e, k),
                            acc   |-> acc1 \cup {k},
                            moves |-> h.moves + 1,
                            ups   |-> h.ups,
                            sidx  |-> h.sidx \cup {k},
                            mono  |-> h.mono /\ sc2 > k]
                 IN downheapLoop(stab, first, sc2, sc2, len, v, h1, pr)
    ELSE [k |-> k, secondChild |-> secondChild, h |-> h]

\* Variant without the lone-leaf adjustment.
loneLeaf_skip(first, len, r) == r

\* The lone-leaf adjustment of the stability-preserving build.
loneLeaf(first, len, r) ==
    IF len % 2 = 0 /\ r.secondChild = CDiv(len - 2, 2)
    THEN LET secondChildIdx == 2 * (r.secondChild + 1) - 1
             e == r.h.a[first + secondChildIdx]
         IN [k |-> secondChildIdx,
             secondChild |-> 2 * (r.secondChild + 1),
             h |-> [a     |-> [r.h.a EXCEPT ![first + r.k] = e],
                    idx   |-> setHeapIndex(r.h.idx, e, r.k),
                    acc   |-> r.h.acc \cup {secondChildIdx, r.k},
                    moves |-> r.h.moves + 1,
                    ups   |-> r.h.ups,
                    sidx  |-> r.h.sidx \cup {r.k},
                    mono  |-> r.h.mono /\ secondChildIdx > r.k]]
    ELSE r

HeapHelpers_downheap(stab, first, topIndex, k, len, v, h, pr) ==
    LET r == downheapLoop(stab, first, k, k, len, v, h, pr) IN
    IF ~stab
    THEN [a     |-> [r.h.a EXCEPT ![first + r.k] = v],
          idx   |-> setHeapIndex(r.h.idx, v, r.k),
          acc   |-> r.h.acc \cup {r.k},
          moves |-> r.h.moves,
          ups   |-> r.h.ups,
          sidx  |-> r.h.sidx \cup {r.k},
          mono  |-> r.h.mono]
    ELSE LET r2 == loneLeaf(first, len, r)
         IN HeapHelpers_upheap(first, r2.k, topIndex, v, r2.h, pr)

\* ----------------------------------------------------- HeapHelpers::remove
\* first, lastp, popPos and result are buffer offsets (the iterators).
\* Variant that does not move *popPos into *result.
HeapHelpers_remove_noOut(stab, first, lastp, popPos, result, h, pr) ==
    LET v  == h.a[result]
        h1 == [h EXCEPT !.acc = h.acc \cup {result - first, popPos - first}]
    IN HeapHelpers_downheap(stab, first, 0, popPos - first, lastp - first,
                            v, h1, pr)

\* Variant that notifies the removed element of the output slot.
HeapHelpers_remove_notifyOut(stab, first, lastp, popPos, result, h, pr) ==
    LET v  == h.a[result]
        h1 == [h EXCEPT !.a = [h.a EXCEPT ![result] = h.a[popPos]],
                        !.idx = setHeapIndex(h.idx, h.a[popPos],
                                             result - first),
                        !.acc = h.acc \cup {result - first, popPos - first}]
    IN HeapHelpers_downheap(stab, first, 0, popPos - first, lastp - first,
                            v, h1, pr)

\* Variant that always opens the hole at the root.
HeapHelpers_remove_rootHole(stab, first, lastp, popPos, result, h, pr) ==
    LET v  == h.a[result]
        h1 == [h EXCEPT !.a = [h.a EXCEPT ![result] = h.a[popPos]],
                        !.acc = h.acc \cup {result - first, popPos - first}]
    IN HeapHelpers_downheap(stab, first, 0, 0, lastp - first, v, h1, pr)

HeapHelpers_remove(stab, first, lastp, popPos, result, h, pr) ==
    LET v  == h.a[result]
        h1 == [h EXCEPT !.a = [h.a EXCEPT ![result] = h.a[popPos]],
                        !.acc = h.acc \cup {result - first, popPos - first}]
    IN HeapHelpers_downheap(stab, first, 0, popPos - first, lastp - first,
                            v, h1, pr)

\* ------------------------------------------------------ public operations
\* Variant that stops the sift one level below the root.
upheap_top1(first, lastp, changed, h, pr) ==
    LET v == h.a[changed] IN
    HeapHelpers_upheap(first, changed - first, 1, v,
                       [h EXCEPT !.acc = h.acc \cup {changed - first}], pr)

upheap(first, lastp, changed, h, pr) ==
    LET v == h.a[changed] IN
    HeapHelpers_upheap(first, changed - first, 0, v,
                       [h EXCEPT !.acc = h.acc \cup {changed - first}], pr)

downheap(stab, first, lastp, changed, h, pr) ==
    LET v == h.a[changed] IN
    HeapHelpers_downheap(stab, first, 0, changed - first, lastp - first, v,
                         [h EXCEPT !.acc = h.acc \cup {changed - first}], pr)

push_heap(first, lastp, h, pr) == upheap(first, lastp, lastp - 1, h, pr)

\* Variant whose guard lets a 1-element range through.
pop_heap_guard0(stab, first, lastp, h, pr) ==
    IF lastp - first > 0
    THEN HeapHelpers_remove(stab, first, lastp - 1, first, lastp - 1, h, pr)
    ELSE h

pop_heap(stab, first, lastp, h, pr) ==
    IF lastp - first > 1
    THEN HeapHelpers_remove(stab, first, lastp - 1, first, lastp - 1, h, pr)
    ELSE h

\* Variant that removes the root whatever popPos is.
pop_heap_pos_root(stab, first, lastp, popPos, h, pr) ==
    IF lastp - first > 1
    THEN HeapHelpers_remove(stab, first, lastp - 1, first, lastp - 1, h, pr)
    ELSE h

pop_heap_pos(stab, first, lastp, popPos, h, pr) ==
    IF lastp - first > 1
    THEN HeapHelpers_remove(stab, first, lastp - 1, popPos, lastp - 1, h, pr)
    ELSE h

\* ------------------------------------------------------------- predicates
\* comp(slot(parent(i)), slot(i)) is false for every non-root slot i < m
HeapOrder(buf, m, pr) ==
    \A i \in 1..(m - 1) : ~Comp(pr, buf[(i - 1) \div 2], buf[i])

\* every live slot i holds an element whose recorded slot is i
Coherent(buf, m, ix) == \A i \in 0..(m - 1) : ix[buf[i]] = i

Live(buf, m) == {buf[i] : i \in 0..(m - 1)}

Distinct(buf, m) == \A i, j \in 0..(m - 1) : i # j => buf[i] # buf[j]

\* The record kept of a call: what it was applied to and what it did.
\* buf is the range the call was given, elem the element at slot pos of it,
\* preLive the elements of the range, preOK and preCoh whether the heap
\* satisfied heap order and position coherence before the caller touched
\* it.  out is the element left in the output slot by a pop (0 when none),
\* with the priority and the recorded slot it has when the call returns.
Call(op, pos, buf, r, out, pr) ==
    [op |-> op, pos |-> pos,
     elem |-> buf[pos],
     preLive |-> {buf[i] : i \in DOMAIN buf},
     preOK |-> HeapOrder(a, n, prio),
     preCoh |-> Coherent(a, n, idx),
     acc |-> r.acc, moves |-> r.moves,
     ups |-> r.ups, sidx |-> r.sidx, mono |-> r.mono,
     out |-> out,
     outPrio |-> IF out = 0 THEN 0 ELSE pr[out],
     outIdx |-> IF out = 0 THEN 0 ELSE r.idx[out]]

Ops == {"init", "insert", "popRoot", "popAt", "upheap", "downheap"}

\* f with x added to (or replaced in) its domain, f restricted to S
With(f, x, y) == [z \in (DOMAIN f) \cup {x} |-> IF z = x THEN y ELSE f[z]]
Only(f, S) == [z \in S |-> f[z]]

TypeOK ==
    /\ stable \in BOOLEAN
    /\ n \in 0..MaxN
    /\ DOMAIN a = 0..(n - 1)
    /\ \A i \in 0..(n - 1) : a[i] \in Elems
    /\ Distinct(a, n)
    /\ prio \in [Live(a, n) -> Prios]
    /\ idx \in [Live(a, n) -> 0..(PosMod - 1)]
    /\ last.op \in Ops

\* ---------------------------------------------------------------- actions
EmptyFn == [z \in {} |-> 0]

NoCall ==
    [op |-> "init", pos |-> 0, elem |-> 0, preLive |-> {},
     preOK |-> TRUE, preCoh |-> TRUE,
     acc |-> {}, moves |-> 0, ups |-> 0, sidx |-> {}, mono |-> TRUE,
     out |-> 0, outPrio |-> 0, outIdx |-> 0]

\* The container is empty and no element object exists yet.
Init ==
    /\ stable \in BOOLEAN
    /\ a = EmptyFn
    /\ n = 0
    /\ prio = EmptyFn
    /\ idx = EmptyFn
    /\ last = NoCall

\* The element object the caller takes for an insertion: objects not in the
\* heap are interchangeable, so it is the free one of least number.
FreeElem(buf, m) ==
    CHOOSE e \in Elems \ Live(buf, m) : \A x \in Elems \ Live(buf, m) : e <= x

\* The recorded slot of an element about to be inserted: 0 for a new
\* object (pos{}), or a slot left over from an earlier stay in a heap.
StaleSlots == {0, MaxN - 1}

\* The caller appends a free element e, with priority p and recorded slot
\* s, at slot n of a container that holds at most cap; then push_heap.
InsertUpTo(cap) ==
    /\ n < cap
    /\ \E p \in Prios, s \in StaleSlots :
         LET e   == FreeElem(a, n)
             pr1 == With(prio, e, p)
             r   == push_heap(First, First + n + 1,
                              Start(With(a, n, e), With(idx, e, s)), pr1)
         IN /\ a' = r.a
            /\ idx' = r.idx
            /\ prio' = pr1
            /\ n' = n + 1
            /\ last' = Call("insert", n, With(a, n, e), r, 0, pr1)
    /\ UNCHANGED stable

\* What the caller does after a pop: it takes the element of the output
\* slot n - 1 out of the container, which shrinks by one.
Shrunk(op, pos, r) ==
    LET out  == r.a[n - 1]
        keep == Live(r.a, n - 1)
    IN /\ a' = Only(r.a, 0..(n - 2))
       /\ idx' = Only(r.idx, keep)
       /\ prio' = Only(prio, keep)
       /\ n' = n - 1
       /\ last' = Call(op, pos, a, r, out, prio)

\* pop_heap(first, last, comp), then the caller shrinks the range by one.
PopRoot ==
    /\ n >= 1
    /\ Shrunk("popRoot", 0,
              pop_heap(stable, First, First + n, Start(a, idx), prio))
    /\ UNCHANGED stable

\* pop_heap(first, last, popPos, comp), then the caller shrinks the range.
PopAt ==
    /\ n >= 1
    /\ \E pos \in 0..(n - 1) :
         Shrunk("popAt", pos,
                pop_heap_pos(stable, First, First + n, First + pos,
                             Start(a, idx), prio))
    /\ UNCHANGED stable

\* The caller raises the priority of the element at pos, then upheap.
ReSiftUp ==
    /\ n >= 1
    /\ \E pos \in 0..(n - 1), p \in Prios :
         /\ p > prio[a[pos]]
         /\ LET pr1 == [prio EXCEPT ![a[pos]] = p]
                r   == upheap(First, First + n, First + pos,
                              Start(a, idx), pr1)
            IN /\ a' = r.a
               /\ idx' = r.idx
               /\ prio' = pr1
               /\ last' = Call("upheap", pos, a, r, 0, pr1)
    /\ UNCHANGED <<stable, n>>

\* The caller lowers the priority of the element at pos, then downheap.
ReSiftDown ==
    /\ n >= 1
    /\ \E pos \in 0..(n - 1), p \in Prios :
         /\ p < prio[a[pos]]
         /\ LET pr1 == [prio EXCEPT ![a[pos]] = p]
                r   == downheap(stable, First, First + n, First + pos,
                                Start(a, idx), pr1)
            IN /\ a' = r.a
               /\ idx' = r.idx
               /\ prio' = pr1
               /\ last' = Call("downheap", pos, a, r, 0, pr1)
    /\ UNCHANGED <<stable, n>>

\* Any sequence of calls on a heap that starts empty.
Insert == InsertUpTo(SeqN)

Next == Insert \/ PopRoot \/ PopAt \/ ReSiftUp \/ ReSiftDown

Spec == Init /\ [][Next]_vars

\* Sequences of insert and popRoot only.
NextIP == Insert \/ PopRoot

SpecIP == Init /\ [][NextIP]_vars

\* One call on any heap of up to MaxN elements that satisfies heap order and
\* position coherence.  Slot i holds element i + 1: such a heap is what
\* inserting the elements in slot order builds.
InitOp ==
    /\ stable \in BOOLEAN
    /\ \E m \in 0..MaxN :
         /\ n = m
         /\ a = [i \in 0..(m - 1) |-> i + 1]
         /\ prio \in {f \in [1..m -> Prios] :
                        HeapOrder([i \in 0..(m - 1) |-> i + 1], m, f)}
         /\ idx = [e \in 1..m |-> e - 1]
    /\ last = NoCall

Fresh == last.op = "init"

OpInsert == Fresh /\ InsertUpTo(MaxN)
OpPopRoot == Fresh /\ PopRoot
OpPopAt == Fresh /\ PopAt
OpReSiftUp == Fresh /\ ReSiftUp
OpReSiftDown == Fresh /\ ReSiftDown

NextOp == OpInsert \/ OpPopRoot \/ OpPopAt \/ OpReSiftUp \/ OpReSiftDown

SpecOp == InitOp /\ [][NextOp]_vars

\* Calls on a range of 0 or 1 elements.  The range is [TinyFirst,
\* TinyFirst + n) of an array of three element pointers, so the slot before
\* the range and the slots after it hold elements of their own.
TinyFirst == First + 1
TinySlots == 0..(TinyFirst + 1)
TinyElems == 1..(TinyFirst + 2)

TinyOps == {"t_pop_heap", "t_pop_heap_pos", "t_push_heap", "t_upheap",
            "t_downheap"}

InitTiny ==
    /\ stable \in BOOLEAN
    /\ a = [i \in TinySlots |-> i + 1]
    /\ n \in {0, 1}
    /\ prio \in [TinyElems -> Prios]
    /\ idx \in [TinyElems -> TinySlots]
    /\ last = NoCall

TinyCall(op, r) ==
    /\ Fresh
    /\ a' = r.a
    /\ idx' = r.idx
    /\ last' = [NoCall EXCEPT !.op = op,
                              !.elem = IF n = 1 THEN a[TinyFirst] ELSE 0,
                              !.preCoh = (n = 1 => idx[a[TinyFirst]] = 0),
                              !.acc = r.acc,
                              !.moves = r.moves,
                              !.ups = r.ups,
                              !.sidx = r.sidx,
                              !.mono = r.mono]
    /\ UNCHANGED <<stable, n, prio>>

TinyPopRoot ==
    TinyCall("t_pop_heap",
             pop_heap(stable, TinyFirst, TinyFirst + n, Start(a, idx), prio))

TinyPopAt ==
    TinyCall("t_pop_heap_pos",
             pop_heap_pos(stable, TinyFirst, TinyFirst + n, TinyFirst,
                          Start(a, idx), prio))

TinyPush ==
    TinyCall("t_push_heap",
             push_heap(TinyFirst, TinyFirst + n, Start(a, idx), prio))

TinyUpheap ==
    TinyCall("t_upheap",
             upheap(TinyFirst, TinyFirst + n, TinyFirst, Start(a, idx), prio))

TinyDownheap ==
    TinyCall("t_downheap",
             downheap(stable, TinyFirst, TinyFirst + n, TinyFirst,
                      Start(a, idx), prio))

NextTiny ==
    TinyPopRoot \/ TinyPopAt \/ TinyPush \/ TinyUpheap \/ TinyDownheap

SpecTiny == InitTiny /\ [][NextTiny]_vars

\* The test program.  Exercise 1 heapifies pointers to the elements of
\* intVec, Exercise 3 pointers to the elements of charVec; element i is the
\* i-th element of the vector in use and a letter is its rank in the
\* alphabet.
IntVec == <<1, 5, 2, 6, 4, 8, 7, 3>>
CharVec == <<5, 1, 19, 25, 17, 21, 5, 19, 20, 9, 15, 14>>
Alphabet == 1..26

\* The calls of Exercise 1 in order: a push_heap on the range grown by
\* element e, or a pop_heap (e = 0).
Ex1 ==
    << [op |-> "insert(5)", e |-> 2], [op |-> "insert(2)", e |-> 3],
       [op |-> "insert(6)", e |-> 4], [op |-> "insert(4)", e |-> 5],
       [op |-> "replace", e |-> 0], [op |-> "insert(8)", e |-> 6],
       [op |-> "remove", e |-> 0], [op |-> "insert(7)", e |-> 7],
       [op |-> "insert(3)", e |-> 8] >>

PrevOp(i) == IF i = 1 THEN "init" ELSE Ex1[i - 1].op

\* The range of the first element alone, its recorded slot 0 (pos{}).
OneSlot == [i \in {0} |-> 1]
OneIdx == [e \in {1} |-> 0]
OnePrio(p) == [e \in {1} |-> p]

InitTest ==
    /\ stable \in BOOLEAN
    /\ a = OneSlot
    /\ n = 1
    /\ prio = OnePrio(IntVec[1])
    /\ idx = OneIdx
    /\ last = NoCall

\* push_heap on the range grown by element e, whose recorded slot is 0.
TestPush(op, e, p) ==
    LET pr1 == With(prio, e, p)
        r   == push_heap(First, First + n + 1,
                         Start(With(a, n, e), With(idx, e, 0)), pr1)
    IN /\ a' = r.a
       /\ idx' = r.idx
       /\ prio' = pr1
       /\ n' = n + 1
       /\ last' = Call(op, n, With(a, n, e), r, 0, pr1)
       /\ UNCHANGED stable

Ex1Push ==
    \E i \in DOMAIN Ex1 :
        /\ Ex1[i].e # 0
        /\ last.op = PrevOp(i)
        /\ TestPush(Ex1[i].op, Ex1[i].e, IntVec[Ex1[i].e])

Ex1Pop ==
    \E i \in DOMAIN Ex1 :
        /\ Ex1[i].e = 0
        /\ last.op = PrevOp(i)
        /\ Shrunk(Ex1[i].op, 0,
                  pop_heap(stable, First, First + n, Start(a, idx), prio))
        /\ UNCHANGED stable

\* Exercise 3 starts on charPtrVec.
Ex3Begin ==
    /\ last.op = Ex1[Len(Ex1)].op
    /\ a' = OneSlot
    /\ n' = 1
    /\ prio' = OnePrio(CharVec[1])
    /\ idx' = OneIdx
    /\ last' = [NoCall EXCEPT !.op = "ex3"]
    /\ UNCHANGED stable

Ex3Push ==
    /\ last.op \in {"ex3", "ex3_push"}
    /\ n < Len(CharVec)
    /\ TestPush("ex3_push", n + 1, CharVec[n + 1])

Built3 == last.op = "ex3_push" /\ n = Len(CharVec)

\* "remove ... at pos ...": a pop at a slot of the heap as built.
Ex3PopAt ==
    /\ Built3
    /\ \E pos \in 0..(n - 1) :
         Shrunk("ex3_pop", pos,
                pop_heap_pos(stable, First, First + n, First + pos,
                             Start(a, idx), prio))
    /\ UNCHANGED stable

\* "change ... at pos ... to ...": the letter of the element at a slot of
\* the heap as built is changed to a later one, then upheap.
Ex3Change ==
    /\ Built3
    /\ \E pos \in 0..(n - 1), c \in Alphabet :
         /\ c > prio[a[pos]]
         /\ LET pr1 == [prio EXCEPT ![a[pos]] = c]
                r   == upheap(First, First + n, First + pos,
                              Start(a, idx), pr1)
            IN /\ a' = r.a
               /\ idx' = r.idx
               /\ prio' = pr1
               /\ last' = Call("ex3_upheap", pos, a, r, 0, pr1)
    /\ UNCHANGED <<stable, n>>

NextTest == Ex1Push \/ Ex1Pop \/ Ex3Begin \/ Ex3Push \/ Ex3PopAt \/ Ex3Change

SpecTest == InitTest /\ [][NextTest]_vars

\* ------------------------------------------------------------ properties
SlotOf(buf, m, x) == CHOOSE i \in 0..(m - 1) : buf[i] = x

Default == ~stable

\* C1: in the default build, a popRoot on a heap of more than one element
\* that satisfies heap order leaves the shrunken range in heap order.
C1_PopRootKeepsHeapOrder ==
    (Default /\ last.op = "popRoot" /\ last.preOK /\ n >= 1)
        => HeapOrder(a, n, prio)

\* C2: in the default build, a popAt(pos) on a heap-ordered, coherent heap
\* of more than one element takes out the element that was at pos and
\* leaves the shrunken range heap-ordered and coherent.
C2_PopAtCorrect ==
    (Default /\ last.op = "popAt" /\ last.preOK /\ last.preCoh /\ n >= 1)
        => /\ last.out = last.elem
           /\ HeapOrder(a, n, prio)
           /\ Coherent(a, n, idx)

\* C3: an insert into a heap-ordered range leaves the grown range in heap
\* order.
C3_InsertKeepsHeapOrder ==
    (last.op = "insert" /\ last.preOK) => HeapOrder(a, n, prio)

C3_Witness ==
    /\ last.op = "insert"
    /\ last.preOK
    /\ n = 7
    /\ last.moves = 2
    /\ a[0] = last.elem

\* C4: after any sequence of calls from the empty heap, every live slot i
\* holds an element whose last setHeapIndex notification carried i, and no
\* element is in two live slots.
C4_PositionCoherence == Coherent(a, n, idx) /\ Distinct(a, n)

C4_Witness ==
    /\ last.op = "downheap"
    /\ last.moves >= 1
    /\ n >= 3
    /\ idx[last.elem] # last.pos

\* C5: in the default build, in a sequence of insert and popRoot calls, a
\* popRoot removes an element that no remaining live element outranks.
C5_RootMaximal ==
    (Default /\ last.op = "popRoot")
        => \A i \in 0..(n - 1) : ~(last.outPrio < prio[a[i]])

\* C6: a pop on more than one element leaves the element that was at pos in
\* the output slot and the other elements, each once, in the shrunken
\* range.
C6_PopPermutes ==
    (last.op \in {"popRoot", "popAt"} /\ n >= 1)
        => /\ last.out = last.elem
           /\ Live(a, n) = last.preLive \ {last.elem}
           /\ Distinct(a, n)

C6_Witness ==
    /\ last.op = "popAt"
    /\ n >= 5
    /\ last.pos = 1
    /\ last.moves >= 1
    /\ last.out = 2

\* C7: in the default build, lowering the priority of one element of a
\* heap-ordered heap and calling downheap at its slot leaves the heap in
\* heap order and coherent.
C7_DownheapRestores ==
    (Default /\ last.op = "downheap" /\ last.preOK /\ last.preCoh)
        => HeapOrder(a, n, prio) /\ Coherent(a, n, idx)

\* C8: raising the priority of one element of a heap-ordered, coherent heap
\* and calling upheap at its slot leaves the heap in heap order and
\* coherent, with the same elements.
C8_UpheapRestores ==
    (last.op = "upheap" /\ last.preOK /\ last.preCoh)
        => /\ HeapOrder(a, n, prio)
           /\ Coherent(a, n, idx)
           /\ Live(a, n) = last.preLive
           /\ Distinct(a, n)

C8_Witness ==
    /\ last.op = "upheap"
    /\ last.preOK
    /\ last.preCoh
    /\ last.pos >= 3
    /\ last.moves = 2
    /\ a[0] = last.elem

\* One step keeps the slot order of the equal-priority pairs it neither
\* removes nor re-sifts.
StableStep ==
    (stable /\ last'.op \in {"popRoot", "popAt", "upheap", "downheap"})
        => \A x, y \in Live(a', n') \ {last'.elem} :
             (prio[x] = prio[y] /\ SlotOf(a, n, x) < SlotOf(a, n, y))
                 => SlotOf(a', n', x) < SlotOf(a', n', y)

\* C9: in the stability-preserving build, a pop or a re-sift keeps the slot
\* order of any two elements of equal priority other than the one removed
\* or re-sifted.
C9_Stability == [][StableStep]_vars

\* A call on a range of 0 or 1 elements touches no slot outside the range
\* and leaves the buffer and every recorded slot as they were.
TinyNoOpStep ==
    (last'.op \in TinyOps)
        => /\ last'.acc \subseteq 0..(n - 1)
           /\ a' = a
           /\ idx' = idx

\* C10 as stated: a pop or sift entry point called on a range of 0 or 1
\* elements touches no slot outside the range and leaves the element, its
\* slot and its recorded slot as they were.
C10_TinyNoOp == [][TinyNoOpStep]_vars

TinySifts == {"t_push_heap", "t_upheap", "t_downheap"}

TinyStep ==
    /\ (last'.op \in {"t_pop_heap", "t_pop_heap_pos"})
           => last'.acc = {} /\ a' = a /\ idx' = idx
    /\ (last'.op \in TinySifts /\ n = 1)
           => /\ last'.acc = {0}
              /\ a' = a
              /\ idx' = [idx EXCEPT ![a[TinyFirst]] = 0]
    /\ (last'.op \in TinySifts /\ n = 0)
           => /\ last'.acc # {}
              /\ last'.acc \cap (0..(n - 1)) = {}

\* C10 amended: the two pops touch no slot and change nothing on a range
\* of 0 or 1 elements; push_heap, upheap and downheap on a range of one
\* element touch slot 0 only, leave the element there and set its recorded
\* slot to 0; on an empty range they touch a slot outside the range.
C10_TinyAmended == [][TinyStep]_vars

C10_Witness ==
    /\ last.op = "t_downheap"
    /\ n = 1
    /\ ~last.preCoh
    /\ last.acc = {0}
    /\ idx[a[TinyFirst]] = 0

Pops == {"popRoot", "popAt"}

\* C11 as stated: after a pop on more than one coherent element, before the
\* caller shrinks the range, every slot of the range the call was given
\* holds an element whose recorded slot is that slot: the slots that stay
\* live, and the output slot, whose number is the new size n, where the
\* removed element now is.
C11_OutputSlotCoherent ==
    (last.op \in Pops /\ n >= 1 /\ last.preCoh)
        => Coherent(a, n, idx) /\ last.outIdx = n

\* C11 amended: after a pop on more than one coherent element every slot
\* that stays live holds an element whose recorded slot is that slot; the
\* removed element is written into the output slot without a notification,
\* so its recorded slot is still pos, the slot it was removed from.
C11_OutputSlotStale ==
    (last.op \in Pops /\ n >= 1 /\ last.preCoh)
        => Coherent(a, n, idx) /\ last.outIdx = last.pos

C11_Witness ==
    /\ last.op = "popAt"
    /\ last.preCoh
    /\ n >= 4
    /\ last.pos = 1
    /\ last.outIdx = 1
    /\ last.moves >= 1

\* C12: in the test's Exercise 3, pushing E,A,S,Y,Q,U,E,S,T,I,O,N one at a
\* time gives 12 elements in heap order and coherent, with an E reporting
\* slot 6, the N slot 5, the U slot 2 and the T slot 1; popping at any of
\* these four slots leaves 11 elements in heap order and coherent, and the
\* element that reported the slot is the one removed and is not among them.
C12_CharScenario ==
    /\ (last.op = "ex3_push" /\ n = Len(CharVec))
           => /\ HeapOrder(a, n, prio)
              /\ Coherent(a, n, idx)
              /\ prio[a[6]] = CharVec[1] /\ idx[a[6]] = 6
              /\ prio[a[5]] = CharVec[12] /\ idx[a[5]] = 5
              /\ prio[a[2]] = CharVec[6] /\ idx[a[2]] = 2
              /\ prio[a[1]] = CharVec[9] /\ idx[a[1]] = 1
    /\ (last.op = "ex3_pop" /\ last.pos \in {6, 5, 2, 1})
           => /\ n = Len(CharVec) - 1
              /\ HeapOrder(a, n, prio)
              /\ Coherent(a, n, idx)
              /\ last.out = last.elem
              /\ last.elem \notin Live(a, n)
              /\ Live(a, n) = last.preLive \ {last.elem}

C12_Witness ==
    /\ last.op = "ex3_pop"
    /\ last.pos = 1
    /\ n = Len(CharVec) - 1
    /\ last.outPrio = CharVec[9]
    /\ last.moves >= 2
    /\ last.preOK /\ last.preCoh

RootIsMax(buf, m, pr) == \A i \in 0..(m - 1) : pr[buf[i]] <= pr[buf[0]]

Ex1Good(root) ==
    /\ HeapOrder(a, n, prio)
    /\ Coherent(a, n, idx)
    /\ RootIsMax(a, n, prio)
    /\ prio[a[0]] = root

\* C13: in the test's Exercise 1, after each of insert 5, 2, 6, 4, the
\* popRoot and insert 8, the range is in heap order and coherent and its
\* root holds the greatest live priority: 5, 5, 6, 6, then 5 after the
\* popRoot, which leaves the 6 in slot 4, then 8.
C13_IntScenario ==
    /\ (last.op = "insert(5)") => n = 2 /\ Ex1Good(5)
    /\ (last.op = "insert(2)") => n = 3 /\ Ex1Good(5)
    /\ (last.op = "insert(6)") => n = 4 /\ Ex1Good(6)
    /\ (last.op = "insert(4)") => n = 5 /\ Ex1Good(6)
    /\ (last.op = "replace")
           => n = 4 /\ Ex1Good(5) /\ last.outPrio = 6
    /\ (last.op = "insert(8)") => n = 5 /\ Ex1Good(8)

C13_Witness ==
    /\ last.op = "insert(8)"
    /\ n = 5
    /\ prio[a[0]] = 8
    /\ last.moves = 2
    /\ prio[a[4]] = 4

\* C14: in the stability-preserving build, a pop at any slot of a heap of
\* more than one element that is in heap order and coherent leaves the
\* remaining range in heap order and coherent, whether its size is even
\* (lone-leaf adjustment) or odd, and whether the relocated last element
\* has to sink below pos or to rise above it.
C14_StableRemoval ==
    (stable /\ last.op \in Pops /\ n >= 1 /\ last.preOK /\ last.preCoh)
        => HeapOrder(a, n, prio) /\ Coherent(a, n, idx)

\* The relocated last element (element n + 1 of a heap of InitOp) outranks
\* the parent of pos and ends in the parent's slot.
C14_Witness ==
    /\ stable
    /\ last.op = "popAt"
    /\ last.preOK /\ last.preCoh
    /\ n = 6
    /\ last.pos = 3
    /\ a[1] = n + 1
    /\ prio[a[3]] < prio[a[1]]
    /\ last.ups = 1

\* A pop at the last slot leaves every other slot, and the recorded slot of
\* the element in it, as they were, and takes out the element of the last
\* slot.
LastSlotStep ==
    (last'.op = "popAt" /\ n > 1 /\ last'.pos = n - 1 /\ last'.preOK)
        => /\ \A i \in 0..(n - 2) : a'[i] = a[i] /\ idx'[a[i]] = idx[a[i]]
           /\ last'.out = a[n - 1]

\* C15: in both builds, popAt(n - 1) on a heap of n > 1 elements in heap
\* order changes no slot of [0, n - 1) and no recorded slot of an element
\* in it, and leaves the removed element in slot n - 1.
C15_PopLastSlot == [][LastSlotStep]_vars

C15_Witness ==
    /\ last.op = "popAt"
    /\ last.preOK
    /\ n >= 3
    /\ last.pos = n
    /\ last.out = last.elem
    /\ last.outIdx = n
    /\ last.acc = {n, (n - 1) \div 2}
    /\ last.moves = 0
    /\ stable

RECURSIVE Log2(_)
\* floor(log2(x)) for x >= 1
Log2(x) == IF x <= 1 THEN 0 ELSE 1 + Log2(x \div 2)

\* the size of the range the last call was given
RangeSize == Cardinality(last.preLive)

\* C16: every call returns, each move of the up-sift loop having taken the
\* hole to a strictly smaller index and each move of the down-sift to a
\* strictly greater one; an up-sift from slot k moves at most
\* floor(log2(k + 1)) parents down and a down-sift in a range of n
\* elements moves at most floor(log2(n)) children up.
C16_LogMoves ==
    /\ last.mono
    /\ (last.op \in {"insert", "upheap"})
           => /\ last.ups <= Log2(last.pos + 1)
              /\ last.moves = last.ups
    /\ (last.op \in Pops \cup {"downheap"})
           => /\ last.moves - last.ups <= Log2(RangeSize)
              /\ last.ups <= Log2(RangeSize)

C16_Witness ==
    /\ stable
    /\ last.op = "popRoot"
    /\ RangeSize = 7
    /\ last.moves - last.ups = Log2(RangeSize)
    /\ last.ups = 1
    /\ last.mono

Slots == 0..(RangeSize - 1)

\* C17: a call on a range of n >= 1 elements, at a slot of the range,
\* reads and writes only slots of [0, n) and passes only indices of [0, n)
\* to setHeapIndex; the parent index (0 - 1) / 2 the up-sift computes when
\* it ends at the root is in [0, n) as well.
C17_IndexSafety ==
    (last.op # "init" /\ RangeSize >= 1)
        => /\ last.acc \subseteq Slots
           /\ last.sidx \subseteq Slots
           /\ (0 \in last.sidx /\ last.ups >= 1) => CDiv(0 - 1, 2) \in Slots

\* A stable-build pop on an even number of remaining elements that takes
\* the lone left child at the last slot of the remaining range.
C17_Witness ==
    /\ stable
    /\ last.op = "popAt"
    /\ RangeSize = 7
    /\ last.pos = 2
    /\ 5 \in last.acc
    /\ 6 \in last.acc
    /\ last.sidx = {2, 5}

RECURSIVE RootPath(_)
\* the slots from k up to the root: k, (k - 1) / 2, ..., 0
RootPath(k) == IF k <= 0 THEN {0} ELSE {k} \cup RootPath((k - 1) \div 2)

\* An insert or an upheap notifies only slots of the root path of its
\* starting slot, and every slot off that path keeps its element, which
\* keeps its recorded slot.
RootPathStep ==
    (last'.op \in {"insert", "upheap"})
        => /\ last'.sidx \subseteq RootPath(last'.pos)
           /\ \A i \in (0..(n - 1)) \ RootPath(last'.pos) :
                 a'[i] = a[i] /\ idx'[a[i]] = idx[a[i]]

\* C18: push_heap and upheap(pos) change the content of, and send
\* setHeapIndex notifications for, only slots on the path from the
\* starting slot (n - 1 or pos) up to the root; every slot off that path
\* keeps its element and that element keeps its recorded slot.
C18_RootPathOnly == [][RootPathStep]_vars

C18_Witness ==
    /\ last.op = "insert"
    /\ n = 7
    /\ last.pos = 6
    /\ last.sidx = {0, 2, 6}
    /\ a[0] = last.elem
    /\ a[1] = 2 /\ a[3] = 4 /\ a[4] = 5 /\ a[5] = 6

====
